---- MODULE Spec2Model ----
(***************************************************************************)
(* Model of src/src/subscriptions.js: the webhook relay's middleware chain *)
(* (validateRequest, authorizeFacebook, verifyHubSignature, the handler)   *)
(* and the fan-out of every (item, service) match over ddp / http.         *)
(*                                                                         *)
(* One request is followed from its arrival to the settlement of every     *)
(* dispatch it started.  Requests share no mutable state (the service      *)
(* configuration and the ddp client registry are read-only), so one        *)
(* request at a time loses nothing.                                        *)
(*                                                                         *)
(* Granularity.  Each middleware is one action: next() hands control to    *)
(* the following middleware.  A transport completion (the ddp callback,    *)
(* the settlement of axios.post) is one action that includes the whole     *)
(* chain of promise reactions it triggers, because Node drains the         *)
(* microtask queue before it runs the next I/O callback.                   *)
(***************************************************************************)
EXTENDS Integers, Sequences, FiniteSets, TLC

VARIABLES services,    \* config.get("services"): name -> service
          req,         \* the request being processed
          stage,       \* the middleware that runs next
          reached,     \* the middlewares that have run for this request
          responses,   \* what has been written to res, in order
          dispatches,  \* one record per promise pushed by pushItem
          outbound,    \* the transport calls issued (client.call / axios.post)
          aggregate    \* state of the handler's Promise.all(promises)

vars == <<services, req, stage, reached, responses, dispatches, outbound, aggregate>>

----------------------------------------------------------------------------
(* JavaScript values *)

\* The value of a missing property or header.
undefined == "<undefined>"

\* if (x) for a string-or-undefined x: undefined and "" are falsy.
Truthy(x) == x # undefined /\ x # ""

----------------------------------------------------------------------------
(* Bounds *)

\* Longest entry array of an inbound envelope.
MaxEntries == 1

----------------------------------------------------------------------------
(* Configuration *)

fbVerifyToken == "verify-token"
clientSecret == "client-secret"

\* for (const serviceName in services) visits the keys in insertion order.
ServiceOrder == <<"alpha", "beta">>
ServiceNames == {ServiceOrder[k] : k \in 1..Len(ServiceOrder)}

MESSAGE_FIELD_MAP(field) ==
  CASE field = "messages" -> "message"
    [] field = "message_deliveries" -> "delivery"
    [] field = "messaging_optins" -> "optin"
    [] field = "messaging_postbacks" -> "postback"
    [] field = "message_reads" -> "read"
    [] OTHER -> undefined

\* A service: hasFields = FALSE is a service configured without a fields key.
Service(type, test, hasFields, fields) ==
  [type |-> type, test |-> test, hasFields |-> hasFields, fields |-> fields]

----------------------------------------------------------------------------
(* Items, entries, envelopes *)

\* An item of a changes / messaging array: field is its "field" value (or
\* undefined), sender says whether it has a sender object, keys are its
\* other own keys.
Item(field, sender, keys) == [field |-> field, sender |-> sender, keys |-> keys]

\* Object.keys(item)
ObjectKeys(item) ==
  (IF item.field # undefined THEN {"field"} ELSE {})
    \cup (IF item.sender THEN {"sender"} ELSE {})
    \cup item.keys

Entry(id, time, hasChanges, changes, hasMessaging, messaging) ==
  [id |-> id, time |-> time,
   hasChanges |-> hasChanges, changes |-> changes,
   hasMessaging |-> hasMessaging, messaging |-> messaging]

Envelope(object, entry) == [object |-> object, entry |-> entry]

\* req.body when the request carried no body (body-parser leaves {}).
EmptyBody == Envelope(undefined, <<>>)

----------------------------------------------------------------------------
(* Signature *)

RECURSIVE EntryCodes(_)
EntryCodes(entry) ==
  IF entry = <<>> THEN 0
  ELSE (IF Head(entry).id = "42" THEN 1 ELSE 2)
         + (IF Head(entry).hasChanges THEN 1 + Len(Head(entry).changes) ELSE 0)
         + (IF Head(entry).hasMessaging THEN 3 + Len(Head(entry).messaging) ELSE 0)
         + 3 * EntryCodes(Tail(entry))

\* crypto.createHmac("sha1", key).update(raw).digest("hex").  The digest is a
\* library primitive: it is modelled as a deterministic keyed digest of the
\* body text onto four values; what the code does with it is an equality test.
HmacSha1Hex(key, raw) ==
  LET code == (IF key = clientSecret THEN 1 ELSE 2)
                + (IF raw.object = "page" THEN 0 ELSE 1)
                + EntryCodes(raw.entry)
  IN  <<"00", "01", "02", "03">>[(code % 4) + 1]

\* "sha1=" + hex
Sha1Prefixed(hex) ==
  CASE hex = "00" -> "sha1=00"
    [] hex = "01" -> "sha1=01"
    [] hex = "02" -> "sha1=02"
    [] hex = "03" -> "sha1=03"

\* req.rawBody is set by the body parser's verify hook only for a body of
\* at least one byte.
HasRawBody(r) == r.body # EmptyBody

expectedSignature(r) == Sha1Prefixed(HmacSha1Hex(clientSecret, r.body))

signatureMatches_mutant_prefix(r) ==
  \E hex \in {"00", "01", "02", "03"} : r.signature = Sha1Prefixed(hex)

\* expectedSignature !== signature is false
signatureMatches(r) == expectedSignature(r) = r.signature

passesGate_mutant_open(r) == TRUE

\* The condition of validateRequest
passesGate(r) == r.mode = "subscribe" \/ Truthy(r.signature)

validToken_mutant_present(r) == r.verify_token # undefined

\* req.query["hub.verify_token"] == app.get("fbVerifyToken")
validToken(r) == r.verify_token = fbVerifyToken

isPage_mutant_entries(body) == body.object = "page" \/ Len(body.entry) > 0

\* body.object == "page"
isPage(body) == body.object = "page"

----------------------------------------------------------------------------
(* Subscription filter and outbound body *)

Elements(seq) == {seq[k] : k \in 1..Len(seq)}

validateFields_mutant_translate(serviceFields, item) ==
  LET fields == {MESSAGE_FIELD_MAP(f) : f \in Elements(serviceFields)}
  IN  IF Truthy(item.field) THEN item.field \in fields
      ELSE IF item.sender THEN \E key \in ObjectKeys(item) : key \in fields
      ELSE FALSE

validateFields_mutant_literal(serviceFields, item) ==
  IF Truthy(item.field) THEN item.field \in Elements(serviceFields)
  ELSE IF item.sender
    THEN \E key \in ObjectKeys(item) : key \in Elements(serviceFields)
  ELSE FALSE

validateFields(serviceFields, item) ==
  IF Truthy(item.field)
    THEN item.field \in Elements(serviceFields)
  ELSE IF item.sender
    THEN LET fields == {MESSAGE_FIELD_MAP(f) : f \in Elements(serviceFields)}
         IN  \E key \in ObjectKeys(item) : key \in fields
  ELSE FALSE

\* The condition of pushItem under which a promise is pushed for a service.
Matches(service, item) ==
  \/ ~service.hasFields
  \/ Len(service.fields) = 0
  \/ validateFields(service.fields, item)

getBody(facebookId, time, item) ==
  Envelope("page",
    << Entry(facebookId, time,
             Truthy(item.field), IF Truthy(item.field) THEN <<item>> ELSE <<>>,
             item.sender, IF item.sender THEN <<item>> ELSE <<>>) >>)

\* push[service.type] exists
Supported(type) == type \in {"ddp", "http"}

NotSupported == [kind |-> "text", text |-> "Service type not supported", ref |-> 0]
Text(s) == [kind |-> "text", text |-> s, ref |-> 0]
\* The err of the transport call of dispatch k.
TransportError(k) == [kind |-> "error", text |-> "transport error", ref |-> k]

pushItem_mutant_suppress(svcs, facebookId, item, time) ==
  LET matched == SelectSeq(ServiceOrder, LAMBDA n : Matches(svcs[n], item))
  IN  [k \in 1..Len(matched) |->
         [service |-> matched[k],
          facebookId |-> facebookId,
          time |-> time,
          item |-> item,
          sent |-> Supported(svcs[matched[k]].type),
          outcome |-> IF Supported(svcs[matched[k]].type) THEN "pending"
                      ELSE IF svcs[matched[k]].test THEN "fulfilled"
                      ELSE "rejected",
          error |-> IF Supported(svcs[matched[k]].type)
                      THEN "none" ELSE "unsupported"]]

\* pushItem: one promise per matching service, in configuration order.  A
\* supported transport is called at once (sent); an unsupported one rejects.
\* outcome is the state of the promise, error what made the dispatch fail
\* ("none", "transport": the err of the call, "unsupported").
pushItem(svcs, facebookId, item, time) ==
  LET matched == SelectSeq(ServiceOrder, LAMBDA n : Matches(svcs[n], item))
  IN  [k \in 1..Len(matched) |->
         [service |-> matched[k],
          facebookId |-> facebookId,
          time |-> time,
          item |-> item,
          sent |-> Supported(svcs[matched[k]].type),
          outcome |-> IF Supported(svcs[matched[k]].type)
                        THEN "pending" ELSE "rejected",
          error |-> IF Supported(svcs[matched[k]].type)
                      THEN "none" ELSE "unsupported"]]

RECURSIVE pushItems(_, _, _, _)
pushItems(svcs, facebookId, items, time) ==
  IF items = <<>> THEN <<>>
  ELSE pushItem(svcs, facebookId, Head(items), time)
         \o pushItems(svcs, facebookId, Tail(items), time)

\* The body of body.entry.forEach for one entry.
pushEntry(svcs, entry) ==
  IF entry.hasChanges
    THEN pushItems(svcs, entry.id, entry.changes, entry.time)
  ELSE IF entry.hasMessaging
    THEN pushItems(svcs, entry.id, entry.messaging, entry.time)
  ELSE <<>>

RECURSIVE pushEntries(_, _)
pushEntries(svcs, entries) ==
  IF entries = <<>> THEN <<>>
  ELSE pushEntry(svcs, Head(entries)) \o pushEntries(svcs, Tail(entries))

\* The transport calls issued for a list of dispatches, in order.
RECURSIVE Calls(_, _, _)
Calls(svcs, ds, k) ==
  IF k > Len(ds) THEN <<>>
  ELSE (IF ds[k].sent
          THEN << [dispatch |-> k,
                   service |-> ds[k].service,
                   transport |-> svcs[ds[k].service].type,
                   data |-> getBody(ds[k].facebookId, ds[k].time, ds[k].item)] >>
          ELSE <<>>)
         \o Calls(svcs, ds, k + 1)

Pending(ds) == {k \in 1..Len(ds) : ds[k].outcome = "pending"}
Rejected(ds) == {k \in 1..Len(ds) : ds[k].outcome = "rejected"}

\* Promise.all over the promises of pushItem and then over those of the
\* handler: rejected as soon as one promise is, fulfilled once all are.
PromiseAll_mutant_ignore(ds) ==
  IF Pending(ds) = {} THEN "fulfilled" ELSE "pending"

PromiseAll(ds) ==
  IF Rejected(ds) # {} THEN "rejected"
  ELSE IF Pending(ds) = {} THEN "fulfilled"
  ELSE "pending"

----------------------------------------------------------------------------
(* The inputs the model draws from *)

\* Configured service types: the two transports of Push and one it lacks.
ServiceTypes == {"ddp", "http", "smtp"}

\* A service either has no fields key or subscribes to ["feed"].
Configs ==
  [ServiceNames ->
     {Service(type, test, hasFields, IF hasFields THEN <<"feed">> ELSE <<>>) :
        type \in ServiceTypes, test \in BOOLEAN, hasFields \in BOOLEAN}]

FeedChange == Item("feed", FALSE, {"value"})
ConversationsChange == Item("conversations", FALSE, {"value"})
MessageEvent == Item(undefined, TRUE, {"recipient", "timestamp", "message"})
\* An item with a field and a sender, and one with neither.
HybridItem == Item("feed", TRUE, {"message"})
BareItem == Item(undefined, FALSE, {"id"})

\* Entries: a changes array, a messaging array, both, neither, an empty
\* changes array beside a messaging array, the odd items, two changes.
EntrySamples ==
  { Entry("42", 1000, TRUE, <<FeedChange>>, FALSE, <<>>),
    Entry("43", 2000, FALSE, <<>>, TRUE, <<MessageEvent>>),
    Entry("42", 2000, TRUE, <<FeedChange>>, TRUE, <<MessageEvent>>),
    Entry("43", 1000, FALSE, <<>>, FALSE, <<>>),
    Entry("42", 1000, TRUE, <<>>, TRUE, <<MessageEvent>>),
    Entry("43", 1000, TRUE, <<HybridItem>>, FALSE, <<>>),
    Entry("42", 2000, FALSE, <<>>, TRUE, <<BareItem>>),
    Entry("43", 2000, TRUE, <<FeedChange, ConversationsChange>>, FALSE, <<>>) }

EntryArrays == UNION {[1..n -> EntrySamples] : n \in 0..MaxEntries}

Envelopes == {Envelope(object, entry) : object \in {"page", "user"}, entry \in EntryArrays}

Request(mode, token, challenge, signature, body) ==
  [mode |-> mode, verify_token |-> token, challenge |-> challenge,
   signature |-> signature, body |-> body]

\* Values of the x-hub-signature header: none, empty, every well-formed
\* signature, a digest without its prefix.
SignatureHeaders ==
  {undefined, "", "00"} \cup {Sha1Prefixed(hex) : hex \in {"00", "01", "02", "03"}}

PageSample == Envelope("page", << Entry("42", 1000, TRUE, <<FeedChange>>, FALSE, <<>>) >>)
UserSample == Envelope("user", << Entry("42", 1000, TRUE, <<FeedChange>>, FALSE, <<>>) >>)

\* Handshakes, probes and notifications with any header over a few bodies.
GateRequests ==
  {Request(mode, token, challenge, signature, body) :
     mode \in {"subscribe"}, token \in {fbVerifyToken, "wrong-token", undefined},
     challenge \in {"1158201444", "challenge-2"},
     signature \in SignatureHeaders, body \in {EmptyBody, PageSample}}
  \cup
  {Request(mode, undefined, undefined, signature, body) :
     mode \in {undefined, "unsubscribe"},
     signature \in SignatureHeaders, body \in {EmptyBody, PageSample, UserSample}}

\* Notifications signed by the platform, over every envelope.
SignedRequests ==
  {Request(undefined, undefined, undefined,
           Sha1Prefixed(HmacSha1Hex(clientSecret, body)), body) :
     body \in Envelopes}

Requests == GateRequests \cup SignedRequests

----------------------------------------------------------------------------
(* The state machine *)

NoRequest == Request(undefined, undefined, undefined, undefined, EmptyBody)

Init ==
  /\ services \in Configs
  /\ req = NoRequest
  /\ stage = "idle"
  /\ reached = {}
  /\ responses = <<>>
  /\ dispatches = <<>>
  /\ outbound = <<>>
  /\ aggregate = "none"

\* res.status(status).send(body)
Send(status, body) == responses' = Append(responses, [status |-> status, body |-> body])

\* A request arrives and is parsed by the body parsers.
Receive ==
  /\ stage = "idle"
  /\ \E r \in Requests : req' = r
  /\ stage' = "validateRequest"
  /\ UNCHANGED <<services, reached, responses, dispatches, outbound, aggregate>>

validateRequest ==
  /\ stage = "validateRequest"
  /\ reached' = reached \cup {"validateRequest"}
  /\ IF passesGate(req)
       THEN /\ stage' = "authorizeFacebook"
            /\ UNCHANGED responses
       ELSE /\ Send(200, Text("pong"))
            /\ stage' = "end"
  /\ UNCHANGED <<services, req, dispatches, outbound, aggregate>>

authorizeFacebook ==
  /\ stage = "authorizeFacebook"
  /\ reached' = reached \cup {"authorizeFacebook"}
  /\ IF req.mode = "subscribe"
       THEN /\ IF validToken(req)
                 THEN Send(200, Text(req.challenge))
                 ELSE Send(400, Text("Invalid token"))
            /\ stage' = "end"
       ELSE /\ stage' = "verifyHubSignature"
            /\ UNCHANGED responses
  /\ UNCHANGED <<services, req, dispatches, outbound, aggregate>>

\* hmac.update(req.rawBody) throws a TypeError when rawBody is undefined; the
\* framework's error handler answers 500.
verifyHubSignature ==
  /\ stage = "verifyHubSignature"
  /\ reached' = reached \cup {"verifyHubSignature"}
  /\ IF req.signature # undefined
       THEN IF ~HasRawBody(req)
              THEN /\ Send(500, Text("TypeError"))
                   /\ stage' = "end"
            ELSE IF ~signatureMatches(req)
              THEN /\ Send(400, Text("Invalid signature"))
                   /\ stage' = "end"
            ELSE /\ stage' = "handler"
                 /\ UNCHANGED responses
       ELSE /\ stage' = "handler"
            /\ UNCHANGED responses
  /\ UNCHANGED <<services, req, dispatches, outbound, aggregate>>

\* What the handler's then / catch writes when Promise.all settles as `state`
\* because of the rejection of dispatch `cause` (0: none).
Respond(state, ds, cause) ==
  IF state = "fulfilled" THEN Send(200, Text("OK"))
  ELSE IF state = "rejected"
    THEN Send(500, IF ds[cause].sent THEN TransportError(cause) ELSE NotSupported)
  ELSE UNCHANGED responses

\* The final handler.  Every pushItem call, hence every transport call, is
\* made before the handler returns; the reactions of an already rejected or
\* an empty Promise.all run before any transport completion.
handler ==
  /\ stage = "handler"
  /\ reached' = reached \cup {"handler"}
  /\ stage' = "end"
  /\ IF isPage(req.body)
       THEN LET ds == pushEntries(services, req.body.entry)
            IN  /\ dispatches' = ds
                /\ outbound' = Calls(services, ds, 1)
                /\ aggregate' = PromiseAll(ds)
                /\ Respond(PromiseAll(ds), ds,
                           IF Rejected(ds) = {} THEN 0
                           ELSE CHOOSE k \in Rejected(ds) : \A j \in Rejected(ds) : k <= j)
       ELSE /\ Send(400, Text("Bad Request"))
            /\ UNCHANGED <<dispatches, outbound, aggregate>>
  /\ UNCHANGED <<services, req>>

settlement_mutant_noTest(service, failed) ==
  IF failed THEN "rejected" ELSE "fulfilled"

\* The callback of client.call and the then / catch of axios.post: resolve
\* without an error, and with an error of a test service; reject otherwise.
settlement(service, failed) ==
  IF ~failed THEN "fulfilled"
  ELSE IF service.test THEN "fulfilled"
  ELSE "rejected"

Settle_mutant_cancel(k, failed) ==
  LET out == settlement(services[dispatches[k].service], failed)
      ds == [j \in 1..Len(dispatches) |->
               IF j = k
                 THEN [dispatches[j] EXCEPT
                         !.outcome = out,
                         !.error = IF failed THEN "transport" ELSE "none"]
               ELSE IF out = "rejected" /\ dispatches[j].outcome = "pending"
                 THEN [dispatches[j] EXCEPT !.outcome = "rejected"]
               ELSE dispatches[j]]
      after == IF aggregate = "pending" THEN PromiseAll(ds) ELSE aggregate
  IN  /\ dispatches' = ds
      /\ aggregate' = after
      /\ IF aggregate = "pending"
           THEN responses' = Append(responses,
                  IF after = "fulfilled" THEN [status |-> 200, body |-> Text("OK")]
                  ELSE [status |-> 500, body |-> TransportError(k)])
           ELSE UNCHANGED responses
      /\ UNCHANGED <<services, req, stage, reached, outbound>>

Settle_mutant_respondEach(k, failed) ==
  LET ds == [dispatches EXCEPT
               ![k].outcome = settlement(services[dispatches[k].service], failed),
               ![k].error = IF failed THEN "transport" ELSE "none"]
      after == IF aggregate = "pending" THEN PromiseAll(ds) ELSE aggregate
  IN  /\ dispatches' = ds
      /\ aggregate' = after
      /\ IF ds[k].outcome = "rejected" THEN Respond("rejected", ds, k)
         ELSE IF aggregate = "pending" THEN Respond(after, ds, k)
         ELSE UNCHANGED responses
      /\ UNCHANGED <<services, req, stage, reached, outbound>>

Settle_mutant_last(k, failed) ==
  LET ds == [dispatches EXCEPT
               ![k].outcome = settlement(services[dispatches[k].service], failed),
               ![k].error = IF failed THEN "transport" ELSE "none"]
      after == IF Pending(ds) # {} THEN "pending"
               ELSE IF Rejected(ds) # {} THEN "rejected"
               ELSE "fulfilled"
  IN  /\ dispatches' = ds
      /\ aggregate' = IF aggregate = "pending" THEN after ELSE aggregate
      /\ IF aggregate = "pending"
           THEN Respond(after, ds,
                        IF Rejected(ds) = {} THEN 0
                        ELSE CHOOSE j \in Rejected(ds) : \A i \in Rejected(ds) : i <= j)
           ELSE UNCHANGED responses
      /\ UNCHANGED <<services, req, stage, reached, outbound>>

\* The transport call of dispatch k completes, with an error or without.
\* A failure of a test service resolves the promise; the promise of pushItem
\* and the two Promise.all follow in the same turn.
Settle(k, failed) ==
  LET ds == [dispatches EXCEPT
               ![k].outcome = settlement(services[dispatches[k].service], failed),
               ![k].error = IF failed THEN "transport" ELSE "none"]
      after == IF aggregate = "pending" THEN PromiseAll(ds) ELSE aggregate
  IN  /\ dispatches' = ds
      /\ aggregate' = after
      /\ IF aggregate = "pending" THEN Respond(after, ds, k) ELSE UNCHANGED responses
      /\ UNCHANGED <<services, req, stage, reached, outbound>>

\* The callback of client.call
ddpCallback ==
  \E k \in 1..Len(dispatches), err \in BOOLEAN :
    /\ dispatches[k].outcome = "pending"
    /\ services[dispatches[k].service].type = "ddp"
    /\ Settle(k, err)

httpSettled_mutant_inOrder ==
  \E k \in 1..Len(dispatches), err \in BOOLEAN :
    /\ dispatches[k].outcome = "pending"
    /\ \A j \in 1..(k - 1) : dispatches[j].outcome # "pending"
    /\ services[dispatches[k].service].type = "http"
    /\ Settle(k, err)

\* The settlement of axios.post
httpSettled ==
  \E k \in 1..Len(dispatches), err \in BOOLEAN :
    /\ dispatches[k].outcome = "pending"
    /\ services[dispatches[k].service].type = "http"
    /\ Settle(k, err)

Next ==
  \/ Receive
  \/ validateRequest
  \/ authorizeFacebook
  \/ verifyHubSignature
  \/ handler
  \/ ddpCallback
  \/ httpSettled

Spec == Init /\ [][Next]_vars

----------------------------------------------------------------------------
(* The subscription filter over a wide range of field lists and items: one
   signed notification of one item, through the same middlewares. *)

FilterFieldLists ==
  { <<>>, <<"feed">>, <<"messages">>, <<"message_deliveries">>, <<"message">>,
    <<"feed", "messages">>, <<"conversations", "message_reads">> }

FilterConfigs ==
  [ServiceNames ->
     {Service(type, FALSE, TRUE, fields) :
        type \in {"ddp", "http"}, fields \in FilterFieldLists}
     \cup {Service(type, FALSE, FALSE, <<>>) : type \in {"ddp", "http"}}]

FilterItems ==
  { FeedChange, ConversationsChange,
    Item("messages", FALSE, {"value"}),
    Item("message", FALSE, {"value"}),
    MessageEvent,
    Item(undefined, TRUE, {"recipient", "timestamp", "delivery"}),
    Item(undefined, TRUE, {"recipient", "timestamp", "read"}),
    Item(undefined, TRUE, {"recipient", "timestamp", "message", "delivery"}),
    Item(undefined, TRUE, {"recipient", "timestamp", "delivery", "read"}),
    Item(undefined, TRUE, {"recipient", "timestamp"}),
    HybridItem, BareItem }

ItemEnvelope(item) ==
  Envelope("page",
    << IF item.field # undefined
         THEN Entry("42", 1000, TRUE, <<item>>, FALSE, <<>>)
         ELSE Entry("42", 1000, FALSE, <<>>, TRUE, <<item>>) >>)

FilterRequests ==
  {Request(undefined, undefined, undefined,
           Sha1Prefixed(HmacSha1Hex(clientSecret, ItemEnvelope(item))),
           ItemEnvelope(item)) :
     item \in FilterItems}

InitFilter ==
  /\ services \in FilterConfigs
  /\ req = NoRequest
  /\ stage = "idle"
  /\ reached = {}
  /\ responses = <<>>
  /\ dispatches = <<>>
  /\ outbound = <<>>
  /\ aggregate = "none"

ReceiveItem ==
  /\ stage = "idle"
  /\ \E r \in FilterRequests : req' = r
  /\ stage' = "validateRequest"
  /\ UNCHANGED <<services, reached, responses, dispatches, outbound, aggregate>>

NextFilter ==
  \/ ReceiveItem
  \/ validateRequest
  \/ authorizeFacebook
  \/ verifyHubSignature
  \/ handler
  \/ ddpCallback
  \/ httpSettled

SpecFilter == InitFilter /\ [][NextFilter]_vars

----------------------------------------------------------------------------
(* Vocabulary of the properties *)

\* The request passed the three middlewares and the handler ran on it.
Validated == "handler" \in reached
PageNotification == Validated /\ req.body.object = "page"
Statuses == {responses[n].status : n \in 1..Len(responses)}
NoDispatch == dispatches = <<>> /\ outbound = <<>>

\* A dispatch that ended in a failure that was not suppressed.
Failures == {k \in 1..Len(dispatches) : dispatches[k].outcome = "rejected"}
\* A dispatch whose transport call failed for a test service.
Suppressed ==
  {k \in 1..Len(dispatches) :
     dispatches[k].error = "transport" /\ dispatches[k].outcome = "fulfilled"}
\* A dispatch whose transport call succeeded.
Delivered ==
  {k \in 1..Len(dispatches) :
     dispatches[k].error = "none" /\ dispatches[k].outcome = "fulfilled"}

----------------------------------------------------------------------------
(* C1 *)

\* C1: for a validated page notification, a response has been sent only if
\* no dispatch of the request is still in flight.
C1_ResponseOnlyAfterAllSettled ==
  (PageNotification /\ responses # <<>>) => Pending(dispatches) = {}

(* C2 *)

\* C2: a request with an x-hub-signature header and no hub.mode = "subscribe"
\* reaches the handler iff the header equals "sha1=" + hex(HMAC-SHA1(secret,
\* rawBody)); with any other header value it is answered 400 and nothing is
\* dispatched.
C2_SignatureGate ==
  (req.mode # "subscribe" /\ req.signature # undefined /\ stage = "end") =>
    LET equal == HasRawBody(req) /\ req.signature = expectedSignature(req)
    IN  /\ Validated <=> equal
        /\ ~equal => (Statuses = {400} /\ Len(responses) = 1 /\ NoDispatch)

(* C3 *)

\* C3: a hub.mode = "subscribe" request is answered by the handshake alone:
\* 200 with the supplied challenge as body when hub.verify_token is the
\* configured token, 400 otherwise, whatever the signature header; neither
\* the signature verifier nor the handler runs and nothing is dispatched.
C3_Handshake ==
  req.mode = "subscribe" =>
    /\ "verifyHubSignature" \notin reached
    /\ ~Validated
    /\ NoDispatch
    /\ stage = "end" =>
         /\ Len(responses) = 1
         /\ IF req.verify_token = fbVerifyToken
              THEN responses[1] = [status |-> 200, body |-> Text(req.challenge)]
              ELSE responses[1].status = 400

\* A handshake with the right token and a signature header that is not the
\* signature of its body has been answered.
C3_Witness ==
  /\ req.mode = "subscribe"
  /\ req.verify_token = fbVerifyToken
  /\ req.challenge = "challenge-2"
  /\ HasRawBody(req)
  /\ Truthy(req.signature)
  /\ req.signature # expectedSignature(req)
  /\ stage = "end"
  /\ responses = << [status |-> 200, body |-> Text("challenge-2")] >>

(* C4 *)

\* C4: once every dispatch of a validated page notification has settled, the
\* one response is 200 iff no dispatch ended in a failure that was not
\* suppressed (none at all included), and 500 iff at least one did.
C4_AggregateStatus ==
  (PageNotification /\ Pending(dispatches) = {}) =>
    /\ Len(responses) = 1
    /\ responses[1].status = 200 <=> Failures = {}
    /\ responses[1].status = 500 <=> Failures # {}

\* Everything settled, a test service's failure was suppressed beside a
\* delivery that succeeded, and the answer is 200.
C4_Witness ==
  /\ PageNotification
  /\ Pending(dispatches) = {}
  /\ Suppressed # {}
  /\ Delivered # {}
  /\ Failures = {}
  /\ responses = << [status |-> 200, body |-> Text("OK")] >>

(* C5 *)

\* C5: a transport failure of a test service resolves its dispatch; a settled
\* batch whose only failures are transport failures of test services is
\* answered 200, and a batch with a transport failure of a service that is
\* not a test service is answered 500.
C5_TestServiceIsolation ==
  PageNotification =>
    /\ \A k \in 1..Len(dispatches) :
         (dispatches[k].error = "transport" /\ services[dispatches[k].service].test)
           => dispatches[k].outcome = "fulfilled"
    /\ ( /\ Pending(dispatches) = {}
         /\ \A k \in 1..Len(dispatches) :
              dispatches[k].error # "none" =>
                (dispatches[k].error = "transport"
                   /\ services[dispatches[k].service].test) )
         => Statuses = {200}
    /\ (\E k \in 1..Len(dispatches) :
          dispatches[k].error = "transport" /\ ~services[dispatches[k].service].test)
         => Statuses = {500}

\* Two services took the same item: the test service's call failed, the
\* other one's succeeded, and the answer is 200.
C5_Witness ==
  /\ PageNotification
  /\ Pending(dispatches) = {}
  /\ \E j, k \in 1..Len(dispatches) :
       /\ dispatches[j].error = "transport"
       /\ services[dispatches[j].service].test
       /\ dispatches[k].error = "none"
       /\ ~services[dispatches[k].service].test
       /\ dispatches[k].outcome = "fulfilled"
  /\ Statuses = {200}

(* C6 *)

\* The items of an entry that the handler hands to pushItem.
Offered(entry) ==
  IF entry.hasChanges THEN entry.changes
  ELSE IF entry.hasMessaging THEN entry.messaging
  ELSE <<>>

\* Every matched (item, service) pair of the request has its dispatch, and
\* its transport call when the transport is supported.
AllInitiated ==
  \A e \in 1..Len(req.body.entry), s \in ServiceNames :
    \A i \in 1..Len(Offered(req.body.entry[e])) :
      Matches(services[s], Offered(req.body.entry[e])[i]) =>
        \E j \in 1..Len(dispatches) :
          /\ dispatches[j].service = s
          /\ dispatches[j].item = Offered(req.body.entry[e])[i]
          /\ dispatches[j].facebookId = req.body.entry[e].id
          /\ dispatches[j].time = req.body.entry[e].time
          /\ Supported(services[s].type) =>
               \E c \in 1..Len(outbound) : outbound[c].dispatch = j

C6_Step ==
  /\ (PageNotification /\ Failures # {})' => AllInitiated'
  /\ Validated =>
       /\ DOMAIN dispatches' = DOMAIN dispatches
       /\ outbound' = outbound
       /\ \A k \in 1..Len(dispatches) :
            dispatches[k].outcome # "pending" => dispatches'[k] = dispatches[k]
       /\ Cardinality({k \in 1..Len(dispatches) : dispatches'[k] # dispatches[k]}) <= 1

C7_SoftAccept ==
  (req.mode # "subscribe" /\ req.signature = undefined
     /\ stage \notin {"idle", "validateRequest"}) =>
    /\ stage = "end"
    /\ responses = << [status |-> 200, body |-> Text("pong")] >>
    /\ reached = {"validateRequest"}
    /\ NoDispatch

\* A probe that carries a page envelope but no signature has been answered.
C7_Witness ==
  /\ req.mode = "unsubscribe"
  /\ req.signature = undefined
  /\ req.body = PageSample
  /\ \E s \in ServiceNames : Matches(services[s], FeedChange)
  /\ stage = "end"
  /\ responses = << [status |-> 200, body |-> Text("pong")] >>

(* C8 *)

\* C8: an envelope whose object is not "page" never causes a dispatch, and
\* when it reaches the handler the answer is 400, whatever its entries and
\* the configured services.
C8_NotPage ==
  req.body.object # "page" =>
    /\ NoDispatch
    /\ aggregate = "none"
    /\ Validated => (Len(responses) = 1 /\ responses[1].status = 400)

\* A signed "user" envelope with an entry that every service would take has
\* been answered 400 by the handler.
C8_Witness ==
  /\ Validated
  /\ req.body.object = "user"
  /\ Len(req.body.entry) > 0
  /\ \A s \in ServiceNames :
       /\ Supported(services[s].type)
       /\ \E i \in 1..Len(Offered(req.body.entry[1])) :
            Matches(services[s], Offered(req.body.entry[1])[i])
  /\ responses = << [status |-> 400, body |-> Text("Bad Request")] >>

(* C9, C10: checked under SpecFilter, where the request carries one item *)

\* The item of the request, once the handler has run on it.
TheItem == Offered(req.body.entry[1])[1]
DispatchedTo(s) == \E j \in 1..Len(dispatches) : dispatches[j].service = s

\* C9: an item with a field key is dispatched to a service iff the service
\* has no field list, or an empty one, or the item's field is literally a
\* member of the list.
C9_ChangeFilter ==
  (Validated /\ TheItem.field # undefined) =>
    \A s \in ServiceNames :
      DispatchedTo(s) <=>
        \/ ~services[s].hasFields
        \/ services[s].fields = <<>>
        \/ \E n \in 1..Len(services[s].fields) : services[s].fields[n] = TheItem.field

\* A change of field "messages" went to the service subscribed to
\* ["messages"] and not to the one subscribed to ["feed"].
C9_Witness ==
  /\ Validated
  /\ TheItem = Item("messages", FALSE, {"value"})
  /\ services["alpha"].fields = <<"messages">>
  /\ services["beta"].fields = <<"feed">>
  /\ DispatchedTo("alpha")
  /\ ~DispatchedTo("beta")

Kinds == <<"message", "delivery", "optin", "postback", "read">>

\* The kind of a messaging event: the first of Kinds among its keys.
RECURSIVE FirstKind(_, _)
FirstKind(item, n) ==
  IF n > Len(Kinds) THEN "none"
  ELSE IF Kinds[n] \in ObjectKeys(item) THEN Kinds[n]
  ELSE FirstKind(item, n + 1)

\* The canonical keys of the table.
Translation(field) ==
  CASE field = "messages" -> "message"
    [] field = "message_deliveries" -> "delivery"
    [] field = "messaging_optins" -> "optin"
    [] field = "messaging_postbacks" -> "postback"
    [] field = "message_reads" -> "read"
    [] OTHER -> "no translation"

MessagingCase(s) ==
  /\ Validated
  /\ TheItem.sender
  /\ TheItem.field = undefined
  /\ services[s].hasFields
  /\ services[s].fields # <<>>

\* C10 as stated: a messaging event is dispatched to a service with a
\* non-empty field list iff its kind, the first of message, delivery, optin,
\* postback, read among its keys, is the translation of an entry of the list.
C10_FirstKindFilter ==
  \A s \in ServiceNames :
    MessagingCase(s) =>
      (DispatchedTo(s) <=>
         \E n \in 1..Len(services[s].fields) :
           Translation(services[s].fields[n]) = FirstKind(TheItem, 1))

\* C10 as amended: a messaging event is dispatched to a service with a
\* non-empty field list iff any of message, delivery, optin, postback, read
\* among its keys is the translation of an entry of the list.
C10_AnyKindFilter ==
  \A s \in ServiceNames :
    MessagingCase(s) =>
      (DispatchedTo(s) <=>
         \E n \in 1..Len(services[s].fields), m \in 1..Len(Kinds) :
           /\ Kinds[m] \in ObjectKeys(TheItem)
           /\ Translation(services[s].fields[n]) = Kinds[m])

\* An event with a message and a delivery key went to the service subscribed
\* to ["message_deliveries"] and to the one subscribed to ["messages"].
C10_Witness ==
  /\ MessagingCase("alpha")
  /\ MessagingCase("beta")
  /\ TheItem.keys = {"recipient", "timestamp", "message", "delivery"}
  /\ services["alpha"].fields = <<"message_deliveries">>
  /\ services["beta"].fields = <<"messages">>
  /\ DispatchedTo("alpha")
  /\ DispatchedTo("beta")

(* C11 *)

\* The members of both arrays of an entry.
AllItems(entry) ==
  (IF entry.hasChanges THEN entry.changes ELSE <<>>)
    \o (IF entry.hasMessaging THEN entry.messaging ELSE <<>>)

\* The (entry, item, service) triples of the request whose filter matches.
MatchingPairs ==
  {t \in UNION {{<<e, i, s>> : i \in 1..Len(AllItems(req.body.entry[e])),
                               s \in ServiceNames} :
                e \in 1..Len(req.body.entry)} :
     Matches(services[t[3]], AllItems(req.body.entry[t[1]])[t[2]])}

\* The dispatches made for one triple.
AttemptsFor(t) ==
  {k \in 1..Len(dispatches) :
     /\ dispatches[k].service = t[3]
     /\ dispatches[k].item = AllItems(req.body.entry[t[1]])[t[2]]
     /\ dispatches[k].facebookId = req.body.entry[t[1]].id
     /\ dispatches[k].time = req.body.entry[t[1]].time}

CallsFor(k) == {c \in 1..Len(outbound) : outbound[c].dispatch = k}

\* C11: for a validated page notification there are as many delivery
\* attempts as (item, service) pairs whose filter matches: every matching
\* pair has an attempt, no other pair has one, and an attempt makes one
\* transport call at most and never a second one, whatever has failed.
C11_OneAttemptPerMatch ==
  PageNotification =>
    /\ Len(dispatches) = Cardinality(MatchingPairs)
    /\ \A t \in MatchingPairs : AttemptsFor(t) # {}
    /\ \A k \in 1..Len(dispatches) :
         /\ Matches(services[dispatches[k].service], dispatches[k].item)
         /\ Cardinality(CallsFor(k)) = IF dispatches[k].sent THEN 1 ELSE 0
    /\ Len(outbound) = Cardinality({k \in 1..Len(dispatches) : dispatches[k].sent})

(* C12 *)

\* C12: the handler runs, and anything is dispatched, only for a request
\* whose x-hub-signature header is the signature of its raw body; the
\* signature verifier never sees a request without the header.
C12_OnlySignedDispatch ==
  /\ (Validated \/ dispatches # <<>> \/ outbound # <<>>) =>
       /\ req.signature # undefined
       /\ HasRawBody(req)
       /\ req.signature = expectedSignature(req)
       /\ req.mode # "subscribe"
  /\ "verifyHubSignature" \in reached =>
       Truthy(req.signature) /\ req.mode # "subscribe"

\* A signed notification has been dispatched.
C12_Witness ==
  /\ Validated
  /\ req.signature = expectedSignature(req)
  /\ Len(outbound) > 0
  /\ Len(dispatches) > 0

(* C13 *)

\* C13: every member of the changes array and every member of the messaging
\* array of every entry is offered to the fan-out, so each service whose
\* filter matches it gets a dispatch, also when the entry carries both
\* arrays; and every dispatch is for a member of one of the arrays, so an
\* entry with neither array adds nothing.
C13_BothArraysOffered ==
  PageNotification =>
    /\ \A e \in 1..Len(req.body.entry) :
         \A i \in 1..Len(AllItems(req.body.entry[e])), s \in ServiceNames :
           Matches(services[s], AllItems(req.body.entry[e])[i])
             => AttemptsFor(<<e, i, s>>) # {}
    /\ \A k \in 1..Len(dispatches) : \E t \in MatchingPairs : k \in AttemptsFor(t)

(* C14 *)

\* The entry of the request a dispatch comes from.
FromEntry(k, entry) ==
  /\ entry.id = dispatches[k].facebookId
  /\ entry.time = dispatches[k].time
  /\ \E i \in 1..Len(AllItems(entry)) : AllItems(entry)[i] = dispatches[k].item

\* C14: the envelope of every transport call has object "page" and one
\* entry with the id and time of the entry the item came from, and that
\* entry carries either a changes array or a messaging array, not both and
\* not neither, whose only member is the dispatched item.
C14_OutboundEnvelope ==
  \A c \in 1..Len(outbound) :
    LET data == outbound[c].data
        k == outbound[c].dispatch
    IN  /\ data.object = "page"
        /\ Len(data.entry) = 1
        /\ \E e \in 1..Len(req.body.entry) :
             /\ FromEntry(k, req.body.entry[e])
             /\ data.entry[1].id = req.body.entry[e].id
             /\ data.entry[1].time = req.body.entry[e].time
        /\ data.entry[1].hasChanges # data.entry[1].hasMessaging
        /\ data.entry[1].hasChanges => data.entry[1].changes = <<dispatches[k].item>>
        /\ data.entry[1].hasMessaging => data.entry[1].messaging = <<dispatches[k].item>>

(* C15 *)

Unsupported == {k \in 1..Len(dispatches) : ~Supported(services[dispatches[k].service].type)}

\* C15: a dispatch to a matched service whose type is neither ddp nor http
\* makes no transport call and is rejected as soon as it is made, whether
\* the service is a test service or not, and the request is then answered
\* 500 and nothing else.
C15_UnsupportedFails ==
  PageNotification =>
    \A k \in Unsupported :
      /\ Matches(services[dispatches[k].service], dispatches[k].item)
      /\ CallsFor(k) = {}
      /\ ~dispatches[k].sent
      /\ dispatches[k].outcome = "rejected"
      /\ dispatches[k].error = "unsupported"
      /\ Statuses = {500}

C15_Witness ==
  /\ PageNotification
  /\ \E k \in Unsupported : services[dispatches[k].service].test
  /\ \A k \in Unsupported : services[dispatches[k].service].test
  /\ Pending(dispatches) # {}
  /\ Statuses = {500}

(* C16 *)

Sent(ds) == {k \in 1..Len(ds) : ds[k].sent}

\* The completion of the transport call of dispatch k is processed.
Completes(k) ==
  /\ dispatches'[k].outcome # dispatches[k].outcome
  /\ \A j \in (1..Len(dispatches)) \ {k} : dispatches'[j] = dispatches[j]

\* C16: the transport calls of a request are all made in the one step of
\* the handler, each for a dispatch that is then still in flight and none
\* after a completion; a completion is processed only after every call is
\* made, and whichever dispatches are in flight, any one of them may be the
\* next to complete.
C16_Step ==
  /\ outbound' # outbound =>
       /\ outbound = <<>> /\ dispatches = <<>>
       /\ \A k \in Sent(dispatches') :
            /\ dispatches'[k].outcome = "pending"
            /\ Cardinality({c \in 1..Len(outbound') : outbound'[c].dispatch = k}) = 1
       /\ Len(outbound') = Cardinality(Sent(dispatches'))
  /\ (\E k \in 1..Len(dispatches) : dispatches[k].outcome = "pending") =>
       /\ Len(outbound) = Cardinality(Sent(dispatches))
       /\ DOMAIN dispatches' = DOMAIN dispatches
       /\ outbound' = outbound
       /\ \A k \in Pending(dispatches) : ENABLED ((ddpCallback \/ httpSettled) /\ Completes(k))

C16_AllIssuedAtOnce == [][C16_Step]_vars

C16_Witness ==
  /\ Len(outbound) = 4
  /\ Cardinality(Pending(dispatches)) = 2
  /\ dispatches[1].outcome = "pending"
  /\ dispatches[4].outcome = "fulfilled"
  /\ dispatches[3].outcome = "fulfilled"
  /\ responses = <<>>

(* C17 *)

\* C17: a request never has two responses, whatever stage answers it and
\* however many dispatches fail in whatever order; after a failure there is
\* no 200; every stage before the end can take its step; and once the chain
\* has ended and no dispatch is in flight the request has exactly one
\* response.
C17_OneResponse ==
  /\ Len(responses) <= 1
  /\ Failures # {} => 200 \notin Statuses
  /\ stage \notin {"idle", "end"} =>
       ENABLED (validateRequest \/ authorizeFacebook \/ verifyHubSignature \/ handler)
  /\ (stage = "end" /\ Pending(dispatches) = {}) => Len(responses) = 1

C17_Witness ==
  /\ PageNotification
  /\ Cardinality(Failures) >= 2
  /\ Delivered # {}
  /\ Pending(dispatches) = {}
  /\ \A k \in 1..Len(dispatches) : dispatches[k].sent
  /\ Len(responses) = 1

(* C18 *)

\* C18: when a page notification is answered 500, no dispatch had failed
\* without suppression before that step, and the body is the error of a
\* dispatch that fails without suppression in that step, never that of a
\* suppressed failure; and once every dispatch has settled the status is
\* 500 if some dispatch failed without suppression and 200 if none did,
\* whatever the order of the completions was.
C18_Step ==
  /\ (PageNotification' /\ responses' # responses
        /\ responses'[Len(responses')].status = 500) =>
       /\ Failures = {}
       /\ \E k \in Failures' :
            /\ k \notin Suppressed'
            /\ responses'[Len(responses')].body =
                 IF dispatches'[k].sent THEN TransportError(k) ELSE NotSupported
       /\ responses'[Len(responses')].body.ref \notin Suppressed'
  /\ (PageNotification' /\ Pending(dispatches') = {}) =>
       Statuses' = IF Failures' # {} THEN {500} ELSE {200}

C18_FirstFailureEchoed == [][C18_Step]_vars

C18_Witness ==
  /\ PageNotification
  /\ Len(responses) = 1
  /\ responses[1].status = 500
  /\ responses[1].body = TransportError(3)
  /\ 1 \in Suppressed
  /\ 2 \in Failures
  /\ Pending(dispatches) = {}

====
